---- MODULE Spec2Model ----
(***************************************************************************)
(* Model of rust/memguard/abort_handler.c: a launcher that installs a      *)
(* SIGABRT handler (abort_handler) and then replaces the process image     *)
(* with the target program through execvp.                                 *)
(*                                                                         *)
(* One process, one thread.  main advances statement by statement; the     *)
(* abort signal is an asynchronous event that may arrive between any two   *)
(* statements of whichever image is running.  abort_handler advances line  *)
(* by line once it has been entered.                                       *)
(***************************************************************************)
EXTENDS Integers, Sequences, FiniteSets, TLC

\* ---------------------------------------------------------------- bounds
MaxArgs == 2          \* arguments after the executable name on the command line
MaxShallow == 2       \* shallow call stacks 0..MaxShallow are explored
MaxExtra == 1         \* deep call stacks ArraySize..ArraySize+MaxExtra are explored

\* ------------------------------------------------------ program constants
ArraySize == 100      \* void *array[100]; backtrace(array, 100)
HandlerExit == 134    \* exit(134)
MainFailure == 1      \* return 1
SIGABRT == 6          \* <signal.h>
SIGSEGV == 11         \* <signal.h>
SIGINT == 2           \* <signal.h>

\* -------------------------------------------------------------- the world
NULL == "(null)"                       \* the null pointer, as an argv entry
Names == {"prog", "nosuch", ""}        \* executable names a user may type
Runnable == {"prog"}                   \* names execvp can resolve and load
Args == {"a", "b"}                     \* argument words
ExitCodes == {0, 1, 134}               \* codes the target may pass to exit
Errnos == {"ENOENT", "EACCES"}         \* why execvp may fail on a given name
Depths == (0..MaxShallow) \cup (ArraySize..(ArraySize + MaxExtra))

Running == [kind |-> "running", code |-> 0]
Exited(n) == [kind |-> "exited", code |-> n]
Signaled(s) == [kind |-> "signaled", code |-> s]

Line(tag, val, txt) == [tag |-> tag, val |-> val, txt |-> txt]

Min(a, b) == IF a < b THEN a ELSE b

\* Words of a command line: sequences over S of length 0..n
SeqsUpTo(S, n) == UNION {[1..k -> S] : k \in 0..n}

\* The argv array the OS hands to main for the command line
\* `launcher w1 ... wn`: argv[0] = "launcher", argv[argc] = NULL.
MkArgv(words) ==
    [j \in 0..(Len(words) + 1) |->
        IF j = 0 THEN "launcher"
        ELSE IF j = Len(words) + 1 THEN NULL
        ELSE words[j]]

CommandLines ==
    {<<>>} \cup {<<e>> \o as : e \in Names, as \in SeqsUpTo(Args, MaxArgs)}

VARIABLES
    argv,          \* main's argv: function 0..argc, argv[argc] = NULL
    pc,            \* where the interrupted instruction stream stands
    disposition,   \* the process's disposition of SIGABRT
    dispWrites,    \* how many times the SIGABRT disposition was written
    sigResult,     \* what signal() returned: "none", "ok", "SIG_ERR"
    execFile,      \* first argument of the execvp call
    execArgv,      \* argument vector execvp read from its second argument
    execResult,    \* "none", "ok", or the errno of the failure
    targetArgv,    \* argv of the target image once loaded
    targetExit,    \* code the target passed to exit (-1: it has not)
    locks,         \* locks held by the interrupted instruction stream
    hpc,           \* where abort_handler stands ("idle" if not entered)
    sig,           \* abort_handler's parameter
    size,          \* abort_handler's local `size`
    strings,       \* abort_handler's local `strings`
    hAllocs,       \* dynamic allocations requested by abort_handler
    hLocks,        \* locks abort_handler asked for
    stderr,        \* lines written to standard error
    executed,      \* source lines of abort_handler.c that were executed
    delivered,     \* image in which SIGABRT was delivered: "none" or an image
    discarded,     \* a SIGABRT was discarded because it is ignored
    term,          \* termination status of the process
    otherDisp,     \* dispositions of the signals other than SIGABRT
    fds,           \* open file descriptors of the process
    environ,       \* environment of the process
    stdout         \* lines written to standard output

vars == <<argv, pc, disposition, dispWrites, sigResult, execFile, execArgv,
          execResult, targetArgv, targetExit, locks, hpc, sig, size, strings, hAllocs,
          hLocks, stderr, executed, delivered, discarded, term, otherDisp, fds,
          environ, stdout>>

mainVars == <<argv, pc, sigResult, execFile, execArgv, execResult, targetArgv,
             targetExit, locks>>
handlerVars == <<hpc, sig, size, strings, hAllocs, hLocks>>
sigVars == <<disposition, dispWrites, delivered, discarded>>
envVars == <<otherDisp, fds, environ, stdout>>

OtherSignals == {SIGINT, SIGSEGV}

argc == CHOOSE n \in DOMAIN argv : argv[n] = NULL /\ \A m \in 0..(n - 1) : argv[m] # NULL

NoStrings == [null |-> TRUE, sym |-> <<>>]

Init ==
    /\ argv \in {MkArgv(w) : w \in CommandLines}
    /\ pc = "signal"
    /\ disposition \in {"SIG_DFL", "SIG_IGN"}
    /\ dispWrites = 0
    /\ sigResult = "none"
    /\ execFile = NULL
    /\ execArgv = <<>>
    /\ execResult = "none"
    /\ targetArgv = <<>>
    /\ targetExit = -1
    /\ locks = {}
    /\ hpc = "idle"
    /\ sig = 0
    /\ size = 0
    /\ strings = NoStrings
    /\ hAllocs = 0
    /\ hLocks = {}
    /\ stderr = <<>>
    /\ executed = {}
    /\ delivered = "none"
    /\ discarded = FALSE
    /\ term = Running
    /\ otherDisp \in {[s \in OtherSignals |-> "SIG_DFL"],
                     [s \in OtherSignals |-> IF s = SIGINT THEN "SIG_IGN" ELSE "SIG_DFL"]}
    /\ fds = {0, 1, 2}
    /\ environ = <<"PATH=/bin">>
    /\ stdout = <<>>

Alive == term = Running
InMain == Alive /\ hpc = "idle"
Image == IF pc = "target" THEN "target" ELSE "launcher"

\* ------------------------------------------------------------------ main

\* What execvp (or the kernel) reads through a char *argv[] pointer that
\* points at entry p of array a: the entries from p up to the terminating NULL.
RECURSIVE VecFrom(_, _)
VecFrom(a, p) == IF a[p] = NULL THEN <<>> ELSE <<a[p]>> \o VecFrom(a, p + 1)

\* ExecVector with the launcher's own argv passed on (argv instead of argv + 1)
ExecVectorWhole(a) == VecFrom(a, 0)

\* The second argument of the call at line 33: argv + 1
ExecVector(a) == VecFrom(a, 1)

\* Effect of a successful image replacement on a signal disposition
\* (execve: caught signals are reset to the default, ignored ones stay ignored).
AfterExec(d) == IF d = "abort_handler" THEN "SIG_DFL" ELSE d

\* main_signal as it would be if the registration result were checked and a
\* failure reported and treated as fatal
main_signal_checked ==
    /\ InMain /\ pc = "signal"
    /\ \E r \in {"ok", "SIG_ERR"} :
        /\ sigResult' = r
        /\ disposition' = IF r = "ok" THEN "abort_handler" ELSE disposition
        /\ dispWrites' = IF r = "ok" THEN dispWrites + 1 ELSE dispWrites
        /\ pc' = IF r = "ok" THEN "execvp" ELSE "done"
        /\ term' = IF r = "ok" THEN term ELSE Exited(MainFailure)
        /\ stderr' = IF r = "ok" THEN stderr ELSE Append(stderr, Line("perror", 0, "signal"))
    /\ executed' = executed \cup {30}
    /\ UNCHANGED <<targetExit, argv, execFile, execArgv, execResult, targetArgv, locks,
                   delivered, discarded>>
    /\ UNCHANGED handlerVars
    /\ UNCHANGED envVars

\* main_signal as it would be if the handler were installed for every
\* signal and not for SIGABRT alone
main_signal_all ==
    /\ InMain /\ pc = "signal"
    /\ \E r \in {"ok", "SIG_ERR"} :
        /\ sigResult' = r
        /\ disposition' = IF r = "ok" THEN "abort_handler" ELSE disposition
        /\ dispWrites' = IF r = "ok" THEN dispWrites + 1 ELSE dispWrites
        /\ otherDisp' = IF r = "ok" THEN [s \in OtherSignals |-> "abort_handler"]
                        ELSE otherDisp
    /\ pc' = "execvp"
    /\ executed' = executed \cup {30}
    /\ UNCHANGED <<targetExit, argv, execFile, execArgv, execResult, targetArgv, locks,
                   stderr, delivered, discarded, term>>
    /\ UNCHANGED handlerVars
    /\ UNCHANGED <<fds, environ, stdout>>

\* line 30: signal(SIGABRT, abort_handler); the return value is not examined
main_signal ==
    /\ InMain /\ pc = "signal"
    /\ \E r \in {"ok", "SIG_ERR"} :
        /\ sigResult' = r
        /\ disposition' = IF r = "ok" THEN "abort_handler" ELSE disposition
        /\ dispWrites' = IF r = "ok" THEN dispWrites + 1 ELSE dispWrites
    /\ pc' = "execvp"
    /\ executed' = executed \cup {30}
    /\ UNCHANGED <<targetExit, argv, execFile, execArgv, execResult, targetArgv, locks,
                   stderr, delivered, discarded, term>>
    /\ UNCHANGED handlerVars
    /\ UNCHANGED envVars

\* execvp_ok as it would be if the target were run and control then came
\* back to the statement after the call
execvp_ok_returns ==
    /\ InMain /\ pc = "execvp"
    /\ argv[1] \in Runnable
    /\ execFile' = argv[1]
    /\ execArgv' = ExecVector(argv)
    /\ execResult' = "ok"
    /\ targetArgv' = ExecVector(argv)
    /\ \E n \in ExitCodes : targetExit' = n
    /\ pc' = "perror"
    /\ executed' = executed \cup {33}
    /\ UNCHANGED <<argv, sigResult, locks, stderr, term>>
    /\ UNCHANGED sigVars
    /\ UNCHANGED handlerVars
    /\ UNCHANGED envVars

\* line 33: execvp(argv[1], argv + 1) replaces the image and does not return
execvp_ok ==
    /\ InMain /\ pc = "execvp"
    /\ argv[1] \in Runnable
    /\ execFile' = argv[1]
    /\ execArgv' = ExecVector(argv)
    /\ execResult' = "ok"
    /\ targetArgv' = ExecVector(argv)
    /\ disposition' = AfterExec(disposition)
    /\ dispWrites' = IF AfterExec(disposition) # disposition THEN dispWrites + 1 ELSE dispWrites
    /\ pc' = "target"
    /\ locks' = {}
    /\ executed' = executed \cup {33}
    /\ UNCHANGED <<targetExit, argv, sigResult, stderr, delivered, discarded, term>>
    /\ UNCHANGED handlerVars
    /\ UNCHANGED envVars

\* line 33: execvp fails, sets errno and returns -1 to main
execvp_fail ==
    /\ InMain /\ pc = "execvp"
    /\ argv[1] # NULL /\ argv[1] \notin Runnable
    /\ execFile' = argv[1]
    /\ execArgv' = ExecVector(argv)
    /\ \E e \in Errnos : execResult' = e
    /\ pc' = "perror"
    /\ executed' = executed \cup {33}
    /\ UNCHANGED <<targetExit, argv, sigResult, targetArgv, locks, stderr, term>>
    /\ UNCHANGED sigVars
    /\ UNCHANGED handlerVars
    /\ UNCHANGED envVars

\* line 33 with argc = 1: argv[1] is the terminating NULL, so execvp is
\* handed a null file name.  That is undefined; the C library either
\* dereferences it (SIGSEGV, default disposition) or the kernel rejects
\* the pointer and execvp returns -1 with EFAULT.
execvp_null ==
    /\ InMain /\ pc = "execvp"
    /\ argv[1] = NULL
    /\ execFile' = NULL
    /\ execArgv' = ExecVector(argv)
    /\ executed' = executed \cup {33}
    /\ \/ /\ term' = Signaled(SIGSEGV)
          /\ execResult' = "fault"
          /\ pc' = "done"
       \/ /\ term' = term
          /\ execResult' = "EFAULT"
          /\ pc' = "perror"
    /\ UNCHANGED <<targetExit, argv, sigResult, targetArgv, locks, stderr>>
    /\ UNCHANGED sigVars
    /\ UNCHANGED handlerVars
    /\ UNCHANGED envVars

\* line 34: perror("execvp") is entered; while inside it the stream lock of
\* stderr is held, and at some points the allocator lock as well
perror_enter ==
    /\ InMain /\ pc = "perror"
    /\ locks' \in {{"stderr"}, {"stderr", "heap"}}
    /\ pc' = "perror_in"
    /\ executed' = executed \cup {34}
    /\ UNCHANGED <<targetExit, argv, sigResult, execFile, execArgv, execResult, targetArgv,
                   stderr, term>>
    /\ UNCHANGED sigVars
    /\ UNCHANGED handlerVars
    /\ UNCHANGED envVars

\* line 34: perror writes "execvp: <strerror(errno)>" and returns
perror_write ==
    /\ InMain /\ pc = "perror_in"
    /\ stderr' = Append(stderr, Line("perror", 0, execResult))
    /\ locks' = {}
    /\ pc' = "return"
    /\ UNCHANGED <<targetExit, argv, sigResult, execFile, execArgv, execResult, targetArgv,
                   executed, term>>
    /\ UNCHANGED sigVars
    /\ UNCHANGED handlerVars
    /\ UNCHANGED envVars

\* main_return with a success status on the failure path
main_return_zero ==
    /\ InMain /\ pc = "return"
    /\ term' = Exited(0)
    /\ pc' = "done"
    /\ executed' = executed \cup {35}
    /\ UNCHANGED <<targetExit, argv, sigResult, execFile, execArgv, execResult, targetArgv,
                   locks, stderr>>
    /\ UNCHANGED sigVars
    /\ UNCHANGED handlerVars
    /\ UNCHANGED envVars

\* main_return with the diagnostic status on the failure path
main_return_diag ==
    /\ InMain /\ pc = "return"
    /\ term' = Exited(HandlerExit)
    /\ pc' = "done"
    /\ executed' = executed \cup {35}
    /\ UNCHANGED <<targetExit, argv, sigResult, execFile, execArgv, execResult, targetArgv,
                   locks, stderr>>
    /\ UNCHANGED sigVars
    /\ UNCHANGED handlerVars
    /\ UNCHANGED envVars

\* line 35: return 1
main_return ==
    /\ InMain /\ pc = "return"
    /\ term' = Exited(MainFailure)
    /\ pc' = "done"
    /\ executed' = executed \cup {35}
    /\ UNCHANGED <<targetExit, argv, sigResult, execFile, execArgv, execResult, targetArgv,
                   locks, stderr>>
    /\ UNCHANGED sigVars
    /\ UNCHANGED handlerVars
    /\ UNCHANGED envVars

\* the target program, running as the process image, exits with a code
target_exit ==
    /\ InMain /\ pc = "target"
    /\ \E n \in ExitCodes :
        /\ targetExit' = n
        /\ term' = Exited(n)
    /\ pc' = "done"
    /\ UNCHANGED <<argv, sigResult, execFile, execArgv, execResult, targetArgv,
                   locks, stderr, executed>>
    /\ UNCHANGED sigVars
    /\ UNCHANGED handlerVars
    /\ UNCHANGED envVars

\* ------------------------------------------------------- signal delivery
\* SIGABRT arrives while the launcher or the target runs.  It is not
\* delivered again while abort_handler runs (signal() blocks the signal
\* for the duration of its handler).

\* disposition is abort_handler: the handler preempts the running code
abort_caught ==
    /\ InMain /\ pc # "done"
    /\ disposition = "abort_handler"
    /\ hpc' = "h8"
    /\ sig' = SIGABRT
    /\ delivered' = Image
    /\ UNCHANGED <<size, strings, hAllocs, hLocks>>
    /\ UNCHANGED <<disposition, dispWrites, discarded, stderr, executed, term>>
    /\ UNCHANGED mainVars
    /\ UNCHANGED envVars

\* default disposition: the process is terminated by the signal
abort_default ==
    /\ InMain /\ pc # "done"
    /\ disposition = "SIG_DFL"
    /\ term' = Signaled(SIGABRT)
    /\ delivered' = Image
    /\ UNCHANGED <<disposition, dispWrites, discarded, stderr, executed>>
    /\ UNCHANGED mainVars
    /\ UNCHANGED handlerVars
    /\ UNCHANGED envVars

\* the signal is ignored: it is discarded and the code carries on
abort_ignored ==
    /\ InMain /\ pc # "done"
    /\ disposition = "SIG_IGN"
    /\ discarded' = TRUE
    /\ UNCHANGED <<disposition, dispWrites, delivered, stderr, executed, term>>
    /\ UNCHANGED mainVars
    /\ UNCHANGED handlerVars
    /\ UNCHANGED envVars

\* --------------------------------------------------------- abort_handler
InHandler(l) == Alive /\ hpc = l

\* what fprintf(stderr, ...) does besides writing: it takes the stream lock
\* (recursive for the owning thread, so it does not wait for the code it
\* interrupted)
Fprintf(line) ==
    /\ stderr' = Append(stderr, line)
    /\ hLocks' = hLocks \cup {"stderr"}

\* line 8: fprintf(stderr, "\n=== SIGABRT CAUGHT IN C HANDLER ===\n")
h_banner ==
    /\ InHandler("h8")
    /\ Fprintf(Line("banner", 0, ""))
    /\ hpc' = "h9"
    /\ executed' = executed \cup {8}
    /\ UNCHANGED <<sig, size, strings, hAllocs, term>>
    /\ UNCHANGED mainVars
    /\ UNCHANGED sigVars
    /\ UNCHANGED envVars

\* line 9: fprintf(stderr, "Signal: %d\n", sig)
h_signal ==
    /\ InHandler("h9")
    /\ Fprintf(Line("signal", sig, ""))
    /\ hpc' = "h15"
    /\ executed' = executed \cup {9}
    /\ UNCHANGED <<sig, size, strings, hAllocs, term>>
    /\ UNCHANGED mainVars
    /\ UNCHANGED sigVars
    /\ UNCHANGED envVars

\* line 15: size = backtrace(array, 100); d is the number of frames the
\* unwinder can walk (0 when it cannot unwind at all)
h_backtrace ==
    /\ InHandler("h15")
    /\ \E d \in Depths : size' = Min(d, ArraySize)
    /\ hpc' = "h16"
    /\ executed' = executed \cup {15}
    /\ UNCHANGED <<sig, strings, hAllocs, hLocks, stderr, term>>
    /\ UNCHANGED mainVars
    /\ UNCHANGED sigVars
    /\ UNCHANGED envVars

\* the array backtrace_symbols returns for frames 0..n-1 (innermost first):
\* how: "symbol" when the frame resolves to a name, "address" when only the
\* raw address can be printed
Symbols(n, how) == [null |-> FALSE, sym |-> [k \in 1..n |-> Line("frame", k - 1, how)]]

\* line 16: strings = backtrace_symbols(array, size): the result is
\* malloc'ed (line 23 frees it); NULL when the allocation fails.  If the
\* interrupted code holds the allocator lock, the call waits for it for ever.
h_symbols ==
    /\ InHandler("h16")
    /\ hAllocs' = hAllocs + 1
    /\ hLocks' = hLocks \cup {"heap"}
    /\ executed' = executed \cup {16}
    /\ IF "heap" \in locks
       THEN /\ hpc' = "blocked"
            /\ strings' = strings
       ELSE /\ hpc' = "h18"
            /\ \/ strings' = NoStrings
               \/ \E how \in {"symbol", "address"} : strings' = Symbols(size, how)
    /\ UNCHANGED <<sig, size, stderr, term>>
    /\ UNCHANGED mainVars
    /\ UNCHANGED sigVars
    /\ UNCHANGED envVars

\* line 18: fprintf(stderr, "Obtained %zd stack frames.\n", size)
h_count ==
    /\ InHandler("h18")
    /\ Fprintf(Line("count", size, ""))
    /\ hpc' = "h20"
    /\ executed' = executed \cup {18}
    /\ UNCHANGED <<sig, size, strings, hAllocs, term>>
    /\ UNCHANGED mainVars
    /\ UNCHANGED sigVars
    /\ UNCHANGED envVars

\* lines 20-21: for (i = 0; i < size; i++) fprintf(stderr, "%s\n", strings[i])
h_frames ==
    /\ InHandler("h20")
    /\ ~(strings.null /\ size > 0)
    /\ stderr' = stderr \o [k \in 1..size |-> strings.sym[k]]
    /\ hLocks' = IF size > 0 THEN hLocks \cup {"stderr"} ELSE hLocks
    /\ hpc' = "h23"
    /\ executed' = IF size > 0 THEN executed \cup {20, 21} ELSE executed \cup {20}
    /\ UNCHANGED <<sig, size, strings, hAllocs, term>>
    /\ UNCHANGED mainVars
    /\ UNCHANGED sigVars
    /\ UNCHANGED envVars

\* lines 20-21 when strings is NULL and size > 0: strings[0] reads through a
\* null pointer.  Undefined: the read faults (SIGSEGV, default disposition,
\* the process is killed), or it yields whatever is mapped there and the
\* loop prints size lines of garbage.
h_frames_null ==
    /\ InHandler("h20")
    /\ strings.null /\ size > 0
    /\ executed' = executed \cup {20, 21}
    /\ \/ /\ term' = Signaled(SIGSEGV)
          /\ hpc' = "faulted"
          /\ UNCHANGED <<stderr, hLocks>>
       \/ /\ term' = term
          /\ hpc' = "h23"
          /\ stderr' = stderr \o [k \in 1..size |-> Line("frame", k - 1, "garbage")]
          /\ hLocks' = hLocks \cup {"stderr"}
    /\ UNCHANGED <<sig, size, strings, hAllocs>>
    /\ UNCHANGED mainVars
    /\ UNCHANGED sigVars
    /\ UNCHANGED envVars

\* line 23: free(strings)
h_free ==
    /\ InHandler("h23")
    /\ hLocks' = IF strings.null THEN hLocks ELSE hLocks \cup {"heap"}
    /\ hpc' = "h24"
    /\ executed' = executed \cup {23}
    /\ UNCHANGED <<sig, size, strings, hAllocs, stderr, term>>
    /\ UNCHANGED mainVars
    /\ UNCHANGED sigVars
    /\ UNCHANGED envVars

\* line 24: fprintf(stderr, "================================\n\n")
h_closing ==
    /\ InHandler("h24")
    /\ Fprintf(Line("closing", 0, ""))
    /\ hpc' = "h26"
    /\ executed' = executed \cup {24}
    /\ UNCHANGED <<sig, size, strings, hAllocs, term>>
    /\ UNCHANGED mainVars
    /\ UNCHANGED sigVars
    /\ UNCHANGED envVars

\* line 26: exit(134)
h_exit ==
    /\ InHandler("h26")
    /\ term' = Exited(HandlerExit)
    /\ hpc' = "exited"
    /\ executed' = executed \cup {26}
    /\ UNCHANGED <<sig, size, strings, hAllocs, hLocks, stderr>>
    /\ UNCHANGED mainVars
    /\ UNCHANGED sigVars
    /\ UNCHANGED envVars

\* ------------------------------------------------------- specification
Next ==
    \/ main_signal
    \/ execvp_ok
    \/ execvp_fail
    \/ execvp_null
    \/ perror_enter
    \/ perror_write
    \/ main_return
    \/ target_exit
    \/ abort_caught
    \/ abort_default
    \/ abort_ignored
    \/ h_banner
    \/ h_signal
    \/ h_backtrace
    \/ h_symbols
    \/ h_count
    \/ h_frames
    \/ h_frames_null
    \/ h_free
    \/ h_closing
    \/ h_exit

Spec == Init /\ [][Next]_vars

TypeOK ==
    /\ pc \in {"signal", "execvp", "perror", "perror_in", "return", "target", "done"}
    /\ disposition \in {"SIG_DFL", "SIG_IGN", "abort_handler"}
    /\ hpc \in {"idle", "h8", "h9", "h15", "h16", "h18", "h20", "h23", "h24",
                "h26", "blocked", "faulted", "exited"}
    /\ size \in 0..ArraySize
    /\ delivered \in {"none", "launcher", "target"}
    /\ term.kind \in {"running", "exited", "signaled"}

\* ---------------------------------------------------------------- claims
Terminated == term # Running
HasLine(tag) == \E k \in 1..Len(stderr) : stderr[k].tag = tag
HandlerRan == 8 \in executed
ExecFailed == execResult \in Errnos \cup {"EFAULT"}

\* C1: when execvp succeeded and SIGABRT was delivered while the process ran
\* as the target, abort_handler ran and the process ended with exit code 134.
C1_TargetAbortReports ==
    (execResult = "ok" /\ delivered = "target" /\ Terminated)
        => (HandlerRan /\ term = Exited(HandlerExit))

\* C2: once the disposition of SIGABRT is abort_handler it remains
\* abort_handler in every later state of the live process, also across a
\* successful execvp.
C2_DispositionStays ==
    [][(disposition = "abort_handler" /\ term' = Running)
          => disposition' = "abort_handler"]_vars

\* C3: the banner is on standard error if and only if SIGABRT was delivered
\* during the run; a run that ended without a delivery shows no banner.
C3_BannerIffDelivered ==
    /\ HasLine("banner") => delivered # "none"
    /\ (Terminated /\ delivered # "none") => HasLine("banner")

\* C4: a target that was launched and exits normally with code N, no abort
\* delivered, ends the process with exit code N, and neither perror nor
\* return 1 of main was executed: a successful execvp does not return.
C4_ExitTransparent ==
    /\ execResult = "ok" => (pc \in {"target", "done"} /\ executed \cap {34, 35} = {})
    /\ (execResult = "ok" /\ Terminated /\ delivered = "none")
          => /\ targetExit \in ExitCodes
             /\ term = Exited(targetExit)
             /\ ~HasLine("perror")

C4_Witness ==
    /\ execResult = "ok" /\ delivered = "none"
    /\ targetExit = 134 /\ term = Exited(134)

\* C5 (as stated): when execvp fails the launcher writes the failure
\* description with the OS error and then exits with code 1; the target
\* never runs.
C5_ExecFailureExitsOne ==
    /\ ExecFailed => (pc # "target" /\ targetArgv = <<>> /\ targetExit = -1)
    /\ (ExecFailed /\ Terminated)
          => /\ term = Exited(MainFailure)
             /\ HasLine("perror")

\* C5 (amended): when execvp fails and no SIGABRT is delivered to the
\* launcher before it exits, the launcher writes the failure description
\* with the OS error (before line 35 runs) and then exits with code 1; the
\* target never runs.
C5_ExecFailureExitsOneUndisturbed ==
    /\ ExecFailed => (pc # "target" /\ targetArgv = <<>> /\ targetExit = -1)
    /\ (ExecFailed /\ pc \in {"return", "done"} /\ delivered = "none")
          => stderr = <<Line("perror", 0, execResult)>>
    /\ (ExecFailed /\ Terminated /\ delivered = "none")
          => /\ term = Exited(MainFailure)
             /\ term.code \notin {0, HandlerExit}
             /\ pc = "done"

C5_Witness ==
    /\ execResult = "ENOENT" /\ delivered = "none"
    /\ term = Exited(1) /\ HasLine("perror")

\* C6: once abort_handler has started, the interrupted code takes no further
\* step and the process can only end with exit code 134, whatever the frame
\* count and whether or not symbol lookup succeeded.
C6_HandlerOnlyExits134 ==
    [][hpc # "idle"
          => /\ pc' = pc
             /\ (term' # Running => term' = Exited(HandlerExit))]_vars

\* C7: the step over signal() leads to the execvp call whether registration
\* succeeded or failed, writes nothing and does not end the process; a run
\* with a failed registration that is not cut short by a signal calls execvp.
C7_RegistrationFailureIgnored ==
    /\ [][(pc = "signal" /\ pc' # pc)
            => (pc' = "execvp" /\ stderr' = stderr /\ term' = Running)]_vars
    /\ [](sigResult = "SIG_ERR" => ~HasLine("banner"))
    /\ []((sigResult = "SIG_ERR" /\ Terminated /\ delivered = "none")
            => (33 \in executed /\ \A k \in 1..Len(stderr) : stderr[k].txt = execResult))

C7_Witness ==
    /\ sigResult = "SIG_ERR" /\ 33 \in executed
    /\ execResult = "ok" /\ stderr = <<>>

\* C8: when backtrace capture fails in abort_handler (no frame captured, or
\* no symbol array although frames were captured) the handler raises no
\* further fault and ends the process with exit code 134.
C8_CaptureFailureGraceful ==
    (16 \in executed /\ hpc # "blocked" /\ (size = 0 \/ strings.null))
        => /\ term \in {Running, Exited(HandlerExit)}
           /\ \A k \in 1..Len(stderr) : stderr[k].txt # "garbage"

\* C9: abort_handler requests no dynamic allocation, asks for no lock the
\* interrupted code holds, and never waits for the code it interrupted.
C9_HandlerAsyncSignalSafe ==
    /\ hAllocs = 0
    /\ hLocks \cap locks = {}
    /\ hpc # "blocked"

\* C10: for a command line `launcher e a1 ... ak` the executable given to
\* execvp is e and the vector the target receives is exactly <<e, a1, ..., ak>>.
C10_ArgvPassThrough ==
    /\ (33 \in executed /\ argc >= 2)
          => /\ execFile = argv[1]
             /\ Len(execArgv) = argc - 1
             /\ \A j \in 1..(argc - 1) : execArgv[j] = argv[j]
    /\ execResult = "ok"
          => /\ Len(targetArgv) = argc - 1
             /\ \A j \in 1..(argc - 1) : targetArgv[j] = argv[j]

C10_Witness ==
    /\ execResult = "ok" /\ pc = "target"
    /\ targetArgv = <<"prog", "b", "a">>

\* what abort_handler wrote: standard error without main's perror line
IsHandlerLine(l) == l.tag # "perror"
HandlerOut == SelectSeq(stderr, IsHandlerLine)

\* the k-th line of a complete report for n captured frames
ReportTag(k, n) ==
    IF k = 1 THEN "banner"
    ELSE IF k = 2 THEN "signal"
    ELSE IF k = 3 THEN "count"
    ELSE IF k <= 3 + n THEN "frame"
    ELSE "closing"

\* C11: the handler's output is, in order, the opening banner, the line with
\* the signal number, the line with the frame count, one line per captured
\* frame and the closing banner, and the process ends only after the closing
\* banner was written.
C11_ReportOrder ==
    hpc # "idle"
        => /\ \A k \in 1..Len(HandlerOut) : HandlerOut[k].tag = ReportTag(k, size)
           /\ Len(HandlerOut) >= 2 => HandlerOut[2].val = sig
           /\ Len(HandlerOut) >= 3 => HandlerOut[3].val = size
           /\ Len(HandlerOut) <= size + 4
           /\ Terminated => (Len(HandlerOut) = size + 4 /\ HasLine("closing"))

C13_DispositionWrittenOnce ==
    /\ dispWrites <= 1
    /\ sigResult = "ok" => dispWrites = 1
    /\ (dispWrites = 1 /\ pc # "signal") => 30 \in executed

\* the frame lines on standard error
IsFrameLine(l) == l.tag = "frame"
FrameLines == SelectSeq(stderr, IsFrameLine)

\* C14: the number of frame lines printed equals the reported frame count,
\* the count is at most 100, and the frame lines are the captured frames in
\* capture order, index 0 (innermost) up to count - 1.
C14_FrameLinesMatchCount ==
    18 \in executed
        => /\ size <= ArraySize
           /\ \A k \in 1..Len(FrameLines) :
                 FrameLines[k].val = k - 1 /\ FrameLines[k].txt \in {"symbol", "address"}
           /\ hpc # "h20" => Len(FrameLines) = size

\* C15: whatever the command line, the one without arguments included, main
\* never calls execvp with an absent (null) or empty executable name.
C15_ExecNameNonEmpty ==
    33 \in executed => (execFile # NULL /\ execFile # "")

\* C16: the step over signal(SIGABRT, abort_handler) changes nothing but
\* the disposition of SIGABRT: the dispositions of the other signals, the
\* open file descriptors, the environment and argv are unchanged and
\* nothing is written to standard output or standard error.
C16_ConfigureFrame ==
    [][(pc = "signal" /\ pc' = "execvp")
          => /\ otherDisp' = otherDisp
             /\ fds' = fds
             /\ environ' = environ
             /\ argv' = argv
             /\ stdout' = stdout
             /\ stderr' = stderr
             /\ disposition' \in {disposition, "abort_handler"}]_vars

C16_Witness ==
    /\ pc = "execvp" /\ sigResult = "ok" /\ disposition = "abort_handler"
    /\ otherDisp[SIGINT] = "SIG_IGN" /\ otherDisp[SIGSEGV] = "SIG_DFL"
    /\ stderr = <<>> /\ stdout = <<>>

====
